---- MODULE Spec2Model ----
(***************************************************************************)
(* Model of the boot-notification script startup_boot_email.py and of the  *)
(* mail helper pythonEmailNotify.EmailSender.                              *)
(*                                                                         *)
(* One run of the script is a sequential process (pc).  Every call of      *)
(* run_ps (a PowerShell child process) and every SMTP step is an           *)
(* interaction with the environment whose outcome is chosen with \E.       *)
(* Optional values (Python None) are sequences: <<>> is None, <<x>> is x.  *)
(* Exceptions are strings, NoExc meaning "no exception".                   *)
(***************************************************************************)
EXTENDS Integers, Sequences, FiniteSets

VARIABLES
    pc,             \* position of the run (or of the pure-function harness)
    environ,        \* os.environ: EMAIL_ADDRESS, EMAIL_PASSWORD, MAIN_EMAIL_ADDRESS, MACHINE_IP
    DEBUG,          \* module global DEBUG (BOOTMAIL_DEBUG == "1")
    sender,         \* main's local `sender` (Option of EmailSender)
    ips,            \* main's local `ips`
    boot_iso,       \* main's local `boot_iso` (Option)
    crash,          \* main's local `crash` (Option of record)
    ref_time,       \* main's local `ref_time` (Option of time)
    recent_errors,  \* main's local `recent_errors`
    queries,        \* history: the run_ps queries issued so far, in order
    sends,          \* history: the sendEmail calls made so far, in order
    conn,           \* the smtplib.SMTP connection of the current sendEmail
    sendCtx,        \* which call site is inside sendEmail
    tryExc,         \* exception raised inside sendEmail's try block (NoExc outside it)
    sendRes,        \* exception leaving sendEmail (NoExc: returned normally)
    notifyCtx,      \* which call site is inside notify_exception
    exc,            \* exception in flight in main / at the process boundary
    origErr,        \* history: the first exception that left main's straight-line code
    bootTransportErr, \* history: transport failure of the primary boot send
    swallowed,      \* history: notify_exception swallowed a secondary error
    exitStatus,     \* how the process ended ("running" until then)
    fnIn,           \* pure-function harness: the inputs drawn
    fnOut           \* pure-function harness: the result

vars == <<pc, environ, DEBUG, sender, ips, boot_iso, crash, ref_time, recent_errors,
          queries, sends, conn, sendCtx, tryExc, sendRes, notifyCtx, exc, origErr,
          bootTransportErr, swallowed, exitStatus, fnIn, fnOut>>

----------------------------------------------------------------------------
(* Bounds of the model *)

MaxHour == 7        \* event times are whole hours 0..MaxHour
MaxEvents == 2      \* at most this many events in a queried log
MaxLines == 3       \* at most this many stdout lines of the IP detection

(* Program constants *)

HoursBefore == 6    \* main: get_recent_errors_near(ref_time, hours_before=6, ...)
Limit == 10         \* main: get_recent_errors_near(..., limit=10)

None == <<>>
Some(x) == <<x>>
NoExc == "NoExc"
Unset == "<unset>"

Times == 0..MaxHour
Event(t) == [TimeCreated |-> t]

(* Logs the environment may hold: sets of event times. *)
Logs == {lg \in SUBSET Times : Cardinality(lg) <= MaxEvents}

(* Logs drawn in a whole run: events at the first and the last hour. *)
RunLogs == SUBSET {0, MaxHour}

(* Outcome of one run_ps call: the child exits non-zero ("fail": run_ps     *)
(* raises RuntimeError), or exits 0 with stdout that is the pipeline's JSON *)
(* ("ok") or that json.loads rejects ("garbage").                           *)
PsStatus == {"ok", "fail", "garbage"}

----------------------------------------------------------------------------
(* Helpers on sequences *)

Truthy(v) == v \notin {Unset, ""}

Range(s) == {s[i] : i \in 1..Len(s)}

Count(s, x) == Cardinality({i \in 1..Len(s) : s[i] = x})

Min(S) == CHOOSE x \in S : \A y \in S : x <= y

RECURSIVE SortAsc(_)
SortAsc(S) == IF S = {} THEN <<>> ELSE <<Min(S)>> \o SortAsc(S \ {Min(S)})

LastN(s, n) == IF Len(s) <= n THEN s ELSE SubSeq(s, Len(s) - n + 1, Len(s))

EventsOf(ts) == [i \in 1..Len(ts) |-> Event(ts[i])]

----------------------------------------------------------------------------
(* PowerShell side: what the query pipelines print *)

(* ConvertTo-Json -Compress of a pipeline: nothing for no object, a JSON    *)
(* object for one, a JSON array for several.                                *)
PsJson(evs) ==
    IF Len(evs) = 0 THEN [kind |-> "empty", val |-> <<>>]
    ELSE IF Len(evs) = 1 THEN [kind |-> "object", val |-> evs]
    ELSE [kind |-> "array", val |-> evs]

(* Variant of WindowedQuery: the lower end of the window is not applied. *)
WindowedQuery_NoStart(lg, t, hrs, limit) ==
    LastN(EventsOf(SortAsc({e \in lg : e <= t})), limit)

(* Where-Object { TimeCreated -le $t -and TimeCreated -ge $start } |        *)
(* Sort-Object TimeCreated | Select-Object -Last limit                      *)
WindowedQuery(lg, t, hrs, limit) ==
    LastN(EventsOf(SortAsc({e \in lg : e <= t /\ e >= t - hrs})), limit)

(* Sort-Object TimeCreated | Select-Object -Last limit                      *)
OverallQuery(lg, limit) == LastN(EventsOf(SortAsc(lg)), limit)

(* Sort-Object TimeCreated | Select-Object ... | Select-Object -Last 1;     *)
(* hasTime = FALSE: the record's TimeCreated comes back null.               *)
CrashQuery(lg, hasTime) ==
    LET evs == LastN(SortAsc(lg), 1)
    IN  [i \in 1..Len(evs) |-> [TimeCreated |-> IF hasTime THEN Some(evs[i]) ELSE None]]

(* stdout lines of the IP detection; a blank line is "". *)
IpLine == {"", "10.0.0.5", "10.0.0.6"}

RECURSIVE SeqsUpTo(_, _)
SeqsUpTo(S, n) ==
    IF n = 0 THEN {<<>>}
    ELSE LET shorter == SeqsUpTo(S, n - 1)
         IN  shorter \cup {Append(s, x) : s \in {t \in shorter : Len(t) = n - 1}, x \in S}

IpOutcomes ==
    {[ok |-> FALSE, out |-> <<>>]} \cup {[ok |-> TRUE, out |-> ls] : ls \in SeqsUpTo(IpLine, MaxLines)}

(* Detection outcomes drawn in a whole run: at most one line of output. *)
RunIpOutcomes == {o \in IpOutcomes : Len(o.out) <= 1}

----------------------------------------------------------------------------
(* startup_boot_email.py: the functions, by what they compute *)

(* Variant of build_sender_from_env: `addr or pw` in place of `addr and pw`. *)
build_sender_from_env_Either(env) ==
    IF Truthy(env.EMAIL_ADDRESS) \/ Truthy(env.EMAIL_PASSWORD)
    THEN Some([login |-> env.EMAIL_ADDRESS,
               password |-> env.EMAIL_PASSWORD,
               default_recipient |-> IF Truthy(env.MAIN_EMAIL_ADDRESS)
                                     THEN env.MAIN_EMAIL_ADDRESS
                                     ELSE env.EMAIL_ADDRESS])
    ELSE None

(* os.getenv("MAIN_EMAIL_ADDRESS") or addr; EmailSender(...) if addr and pw *)
build_sender_from_env(env) ==
    IF Truthy(env.EMAIL_ADDRESS) /\ Truthy(env.EMAIL_PASSWORD)
    THEN Some([login |-> env.EMAIL_ADDRESS,
               password |-> env.EMAIL_PASSWORD,
               default_recipient |-> IF Truthy(env.MAIN_EMAIL_ADDRESS)
                                     THEN env.MAIN_EMAIL_ADDRESS
                                     ELSE env.EMAIL_ADDRESS])
    ELSE None

(* detected = [line.strip() for line in out.splitlines() if line.strip()] *)
DetectedLines(out) == SelectSeq(out, LAMBDA l : l # "")

(* Variant of get_local_ipv4_list: detection extends the fallback list. *)
get_local_ipv4_list_Extend(env_ip, o) ==
    LET fallback == IF Truthy(env_ip) THEN <<env_ip>> ELSE <<>>
    IN  IF o.ok THEN fallback \o DetectedLines(o.out) ELSE fallback

(* o: the outcome of the detection's run_ps ([ok, out]) *)
get_local_ipv4_list(env_ip, o) ==
    LET fallback == IF Truthy(env_ip) THEN <<env_ip>> ELSE <<>>
        detected == DetectedLines(o.out)
    IN  IF o.ok /\ detected # <<>> THEN detected ELSE fallback

(* Variant of get_boot_time_iso: a failed query is swallowed like the soft ones. *)
get_boot_time_iso_Soft(o) ==
    [raised |-> NoExc, value |-> IF o.ok THEN Some(o.out) ELSE None]

(* o: [ok, out]; run_ps raises when the child exits non-zero *)
get_boot_time_iso(o) ==
    IF o.ok THEN [raised |-> NoExc, value |-> Some(o.out)]
    ELSE [raised |-> "RuntimeError_boot", value |-> None]

(* s: the PsStatus of the query, out: the pipeline's JSON.  run_ps is       *)
(* called outside the try: its RuntimeError leaves the function.            *)
get_latest_crash_marker(s, out) ==
    IF s = "fail" THEN [raised |-> "RuntimeError_crash", value |-> None]
    ELSE IF s = "garbage" THEN [raised |-> NoExc, value |-> None]
    ELSE IF out.kind = "empty" THEN [raised |-> NoExc, value |-> None]
    ELSE IF out.kind = "object" /\ out.val[1].TimeCreated # None
         THEN [raised |-> NoExc, value |-> Some(out.val[1])]
    ELSE [raised |-> NoExc, value |-> None]

(* ref_time = crash.get("TimeCreated") if crash else None *)
ref_time_of(c) == IF c # None THEN c[1].TimeCreated ELSE None

(* Variant of PrimaryKind: the time-windowed query whatever the reference time. *)
PrimaryKind_Windowed(time_iso) == "windowed"

(* `if time_iso:` chooses the time-windowed or the most-recent-overall query *)
PrimaryKind(time_iso) == IF time_iso # None THEN "windowed" ELSE "overall"

(* json.loads + the dict / list normalisation of lines 168-173, 185-190 *)
ParseEvents(out) ==
    IF out.kind = "empty" THEN <<>>
    ELSE IF out.kind = "object" THEN <<out.val[1]>>
    ELSE out.val

(* Variant of FallbackResult: the inner except clause is missing. *)
FallbackResult_Uncaught(lg, limit, s2) ==
    IF s2 = "ok"
    THEN [raised |-> NoExc, value |-> ParseEvents(PsJson(OverallQuery(lg, limit)))]
    ELSE [raised |-> "RuntimeError_fallback", value |-> <<>>]

(* the fallback query's try block, lines 176-192: s2 is its PsStatus *)
FallbackResult(lg, limit, s2) ==
    IF s2 = "ok"
    THEN [raised |-> NoExc, value |-> ParseEvents(PsJson(OverallQuery(lg, limit)))]
    ELSE [raised |-> NoExc, value |-> <<>>]

(* lg: the System log's Critical/Error events; s1, s2: the PsStatus of the  *)
(* primary and of the fallback query.  Result: the exception leaving the    *)
(* function, the value returned, the queries issued and where the value     *)
(* came from.                                                               *)
get_recent_errors_near(time_iso, hours_before, limit, lg, s1, s2) ==
    LET kind == PrimaryKind(time_iso)
        \* [datetime]::Parse of the interpolated time: 'None' does not parse
        parses == time_iso # None
        primary == IF kind = "windowed"
                   THEN IF parses
                        THEN WindowedQuery(lg, time_iso[1], hours_before, limit)
                        ELSE <<>>
                   ELSE OverallQuery(lg, limit)
        st1 == IF kind = "windowed" /\ ~parses THEN "fail" ELSE s1
        fb == FallbackResult(lg, limit, s2)
    IN  IF st1 = "ok"
        THEN [raised |-> NoExc, value |-> ParseEvents(PsJson(primary)),
              issued |-> <<kind>>, from |-> kind]
        ELSE [raised |-> fb.raised, value |-> fb.value,
              issued |-> <<kind, "fallback">>, from |-> "fallback"]

(* Variant of notify_exception_raises: no except clause, the secondary error escapes. *)
notify_exception_raises_Escapes(inner) == inner

(* notify_exception's except clause, lines 273-280: the exception that      *)
(* leaves notify_exception when `inner` was raised inside its try           *)
notify_exception_raises(inner) == NoExc

----------------------------------------------------------------------------
(* pythonEmailNotify.py *)

(* Variant of ConnAfterWith: server.quit() as the block's last statement, no with. *)
ConnAfterWith_QuitAtEnd(c, pending) == IF pending = NoExc THEN "closed" ELSE c

(* `with smtplib.SMTP(...) as server`: __exit__ closes the connection,      *)
(* whether or not an exception (pending) is leaving the block               *)
ConnAfterWith(c, pending) == "closed"

TransportError(stage) == "SMTPException_" \o stage

----------------------------------------------------------------------------
(* The run: python startup_boot_email.py *)

EnvValues == {Unset, "", "me@example.com"}

Environs ==
    [EMAIL_ADDRESS : EnvValues, EMAIL_PASSWORD : {Unset, "", "secret"},
     MAIN_EMAIL_ADDRESS : {Unset, "admin@example.com"},
     MACHINE_IP : {Unset, "192.168.1.9"}]

HasCreds(env) == Truthy(env.EMAIL_ADDRESS) /\ Truthy(env.EMAIL_PASSWORD)

(* every variable of the run before its first statement *)
RunStart ==
    /\ sender = None
    /\ ips = <<>>
    /\ boot_iso = None
    /\ crash = None
    /\ ref_time = None
    /\ recent_errors = <<>>
    /\ queries = <<>>
    /\ sends = <<>>
    /\ conn = "none"
    /\ sendCtx = "none"
    /\ tryExc = NoExc
    /\ sendRes = NoExc
    /\ notifyCtx = "none"
    /\ exc = NoExc
    /\ origErr = NoExc
    /\ bootTransportErr = NoExc
    /\ swallowed = FALSE
    /\ exitStatus = "running"

Init ==
    /\ pc = "main"
    /\ environ \in Environs
    /\ DEBUG \in BOOLEAN
    /\ RunStart
    /\ fnIn = <<>>
    /\ fnOut = <<>>

mainLocals == <<sender, ips, boot_iso, crash, ref_time, recent_errors>>
sendVars == <<conn, sendCtx, tryExc, sendRes>>
histVars == <<origErr, bootTransportErr, swallowed>>
fnVars == <<fnIn, fnOut>>

(* main, lines 285-287: no sender -> SystemExit, which `except Exception`   *)
(* at the process boundary does not catch                                   *)
MainBuildSender ==
    /\ pc = "main"
    /\ sender' = build_sender_from_env(environ)
    /\ IF sender' = None
       THEN pc' = "done" /\ exitStatus' = "SystemExit"
       ELSE pc' = "ips" /\ UNCHANGED exitStatus
    /\ UNCHANGED <<environ, DEBUG, ips, boot_iso, crash, ref_time, recent_errors, queries,
                   sends, sendVars, notifyCtx, exc, histVars, fnVars>>

(* main, line 293 *)
MainLocalIps ==
    /\ pc = "ips"
    /\ \E o \in RunIpOutcomes : ips' = get_local_ipv4_list(environ.MACHINE_IP, o)
    /\ queries' = Append(queries, "ips")
    /\ pc' = "boot"
    /\ UNCHANGED <<environ, DEBUG, sender, boot_iso, crash, ref_time, recent_errors,
                   sends, sendVars, notifyCtx, exc, histVars, exitStatus, fnVars>>

(* main, line 295: a RuntimeError of run_ps leaves main *)
MainBootTime ==
    /\ pc = "boot"
    /\ \E ok \in BOOLEAN :
         LET r == get_boot_time_iso([ok |-> ok, out |-> MaxHour])
         IN  /\ boot_iso' = r.value
             /\ exc' = r.raised
             /\ origErr' = r.raised
             /\ pc' = IF r.raised = NoExc THEN "crash" ELSE "boundary"
    /\ queries' = Append(queries, "boot")
    /\ UNCHANGED <<environ, DEBUG, sender, ips, crash, ref_time, recent_errors,
                   sends, sendVars, notifyCtx, bootTransportErr, swallowed, exitStatus, fnVars>>

(* main, lines 298-301 *)
MainCrashMarker ==
    /\ pc = "crash"
    /\ \E lg \in RunLogs, s \in PsStatus, hasTime \in BOOLEAN :
         LET r == get_latest_crash_marker(s, PsJson(CrashQuery(lg, hasTime)))
         IN  /\ crash' = r.value
             /\ ref_time' = ref_time_of(r.value)
             /\ exc' = r.raised
             /\ origErr' = r.raised
             /\ pc' = IF r.raised = NoExc THEN "errors" ELSE "boundary"
    /\ queries' = Append(queries, "crash")
    /\ UNCHANGED <<environ, DEBUG, sender, ips, boot_iso, recent_errors,
                   sends, sendVars, notifyCtx, bootTransportErr, swallowed, exitStatus, fnVars>>

(* main, lines 304-310, then 312-316: the probe is sent only in debug mode *)
MainRecentErrors ==
    /\ pc = "errors"
    /\ \E lg \in RunLogs, s1 \in PsStatus, s2 \in PsStatus :
         LET r == get_recent_errors_near(ref_time, HoursBefore, Limit, lg, s1, s2)
         IN  /\ queries' = queries \o r.issued
             /\ IF r.raised = NoExc
                THEN /\ recent_errors' = r.value
                     /\ pc' = IF DEBUG THEN "probe" ELSE "send_boot"
                     /\ UNCHANGED notifyCtx
                ELSE /\ recent_errors' = <<>>
                     /\ pc' = "notify"
                     /\ notifyCtx' = "recent"
    /\ UNCHANGED <<environ, DEBUG, sender, ips, boot_iso, crash, ref_time,
                   sends, sendVars, exc, histVars, exitStatus, fnVars>>

(* main, line 318: the debug probe email *)
MainProbe ==
    /\ pc = "probe"
    /\ sendCtx' = "probe"
    /\ pc' = "se_begin"
    /\ UNCHANGED <<environ, DEBUG, mainLocals, queries, sends, conn, tryExc, sendRes,
                   notifyCtx, exc, histVars, exitStatus, fnVars>>

(* main, line 325: the primary boot email *)
MainSendBoot ==
    /\ pc = "send_boot"
    /\ sendCtx' = "boot"
    /\ pc' = "se_begin"
    /\ UNCHANGED <<environ, DEBUG, mainLocals, queries, sends, conn, tryExc, sendRes,
                   notifyCtx, exc, histVars, exitStatus, fnVars>>

----------------------------------------------------------------------------
(* EmailSender.sendEmail *)

(* the EmailSender the current call of sendEmail belongs to *)
CurrentSender == IF sendCtx = "report" THEN build_sender_from_env(environ) ELSE sender

(* lines 30-40: the recipient check and the message, before the try *)
SendEmailBegin ==
    /\ pc = "se_begin"
    /\ sends' = Append(sends, sendCtx)
    /\ tryExc' = NoExc
    /\ conn' = "none"
    /\ IF CurrentSender[1].default_recipient = Unset
       THEN sendRes' = "ValueError" /\ pc' = "se_return"
       ELSE sendRes' = NoExc /\ pc' = "se_connect"
    /\ UNCHANGED <<environ, DEBUG, mainLocals, queries, sendCtx,
                   notifyCtx, exc, histVars, exitStatus, fnVars>>

(* the history of the primary send's transport failure *)
NoteTransport(e) ==
    bootTransportErr' = IF sendCtx = "boot" /\ e # NoExc THEN e ELSE bootTransportErr

(* line 44: smtplib.SMTP(server, port) connects; on failure the with block  *)
(* is never entered                                                         *)
SmtpConnect ==
    /\ pc = "se_connect"
    /\ \E ok \in BOOLEAN :
         IF ok
         THEN conn' = "open" /\ pc' = "se_starttls" /\ UNCHANGED <<tryExc, bootTransportErr>>
         ELSE /\ tryExc' = TransportError("connect")
              /\ NoteTransport(TransportError("connect"))
              /\ pc' = "se_except"
              /\ UNCHANGED conn
    /\ UNCHANGED <<environ, DEBUG, mainLocals, queries, sends, sendCtx, sendRes,
                   notifyCtx, exc, origErr, swallowed, exitStatus, fnVars>>

(* one statement of the with block: it succeeds, or raises towards __exit__ *)
SmtpStep(here, stage, next) ==
    /\ pc = here
    /\ \E ok \in BOOLEAN :
         IF ok
         THEN pc' = next /\ UNCHANGED <<tryExc, bootTransportErr>>
         ELSE /\ tryExc' = TransportError(stage)
              /\ NoteTransport(TransportError(stage))
              /\ pc' = "se_exit"
    /\ UNCHANGED <<environ, DEBUG, mainLocals, queries, sends, conn, sendCtx, sendRes,
                   notifyCtx, exc, origErr, swallowed, exitStatus, fnVars>>

(* line 45 *)
SmtpStarttls == SmtpStep("se_starttls", "starttls", "se_login")

(* line 46 *)
SmtpLogin == SmtpStep("se_login", "login", "se_send_message")

(* line 47 *)
SmtpSendMessage == SmtpStep("se_send_message", "send_message", "se_exit")

(* line 44: leaving the with block, normally or by an exception *)
SmtpExit ==
    /\ pc = "se_exit"
    /\ conn' = ConnAfterWith(conn, tryExc)
    /\ pc' = IF tryExc = NoExc THEN "se_print" ELSE "se_except"
    /\ UNCHANGED <<environ, DEBUG, mainLocals, queries, sends, sendCtx, tryExc, sendRes,
                   notifyCtx, exc, histVars, exitStatus, fnVars>>

(* line 48: print inside the try; a failing print is caught at line 49 *)
PrintSent ==
    /\ pc = "se_print"
    /\ \E printOk \in BOOLEAN :
         IF printOk
         THEN pc' = "se_return" /\ tryExc' = NoExc
         ELSE pc' = "se_except" /\ tryExc' = "PrintError"
    /\ sendRes' = NoExc
    /\ UNCHANGED <<environ, DEBUG, mainLocals, queries, sends, conn, sendCtx,
                   notifyCtx, exc, histVars, exitStatus, fnVars>>

(* lines 49-50: the handler prints and returns normally; only a failing     *)
(* print leaves sendEmail as an exception                                   *)
SendExcept ==
    /\ pc = "se_except"
    /\ \E printOk \in BOOLEAN : sendRes' = IF printOk THEN NoExc ELSE "PrintError"
    /\ tryExc' = NoExc
    /\ pc' = "se_return"
    /\ UNCHANGED <<environ, DEBUG, mainLocals, queries, sends, conn, sendCtx,
                   notifyCtx, exc, histVars, exitStatus, fnVars>>

----------------------------------------------------------------------------
(* back in the callers of sendEmail *)

(* main, lines 319-322 *)
ProbeReturn ==
    /\ pc = "se_return"
    /\ sendCtx = "probe"
    /\ IF sendRes = NoExc
       THEN pc' = "send_boot" /\ UNCHANGED notifyCtx
       ELSE pc' = "notify" /\ notifyCtx' = "probe"
    /\ UNCHANGED <<environ, DEBUG, mainLocals, queries, sends, sendVars,
                   exc, histVars, exitStatus, fnVars>>

(* main, lines 326-330: on an exception notify, then re-raise *)
BootSendReturn ==
    /\ pc = "se_return"
    /\ sendCtx = "boot"
    /\ IF sendRes = NoExc
       THEN /\ pc' = "done"
            /\ exitStatus' = "ok"
            /\ UNCHANGED <<notifyCtx, exc, origErr>>
       ELSE /\ pc' = "notify"
            /\ notifyCtx' = "main"
            /\ exc' = sendRes
            /\ origErr' = sendRes
            /\ UNCHANGED exitStatus
    /\ UNCHANGED <<environ, DEBUG, mainLocals, queries, sends, sendVars,
                   bootTransportErr, swallowed, fnVars>>

(* notify_exception, line 272: sendException has returned or raised *)
ReportReturn ==
    /\ pc = "se_return"
    /\ sendCtx = "report"
    /\ pc' = "notify_end"
    /\ UNCHANGED <<environ, DEBUG, mainLocals, queries, sends, sendVars,
                   notifyCtx, exc, histVars, exitStatus, fnVars>>

(* notify_exception, lines 269-272 *)
NotifyException ==
    /\ pc = "notify"
    /\ IF build_sender_from_env(environ) = None
       THEN pc' = "notify_end" /\ sendRes' = NoExc /\ UNCHANGED sendCtx
       ELSE pc' = "se_begin" /\ sendCtx' = "report" /\ UNCHANGED sendRes
    /\ UNCHANGED <<environ, DEBUG, mainLocals, queries, sends, conn, tryExc,
                   notifyCtx, exc, histVars, exitStatus, fnVars>>

(* notify_exception, lines 273-280, and what its caller does next:          *)
(* lines 309-310 (recent), 322 (probe), 330 (main: raise), 339 (boundary:   *)
(* raise).  An exception leaving notify_exception would replace the one     *)
(* being handled.                                                           *)
NotifyEnd ==
    /\ pc = "notify_end"
    /\ LET esc == notify_exception_raises(sendRes)
       IN  /\ swallowed' = (swallowed \/ (sendRes # NoExc /\ esc = NoExc))
           /\ IF esc # NoExc
              THEN IF notifyCtx = "boundary"
                   THEN pc' = "done" /\ exitStatus' = esc /\ UNCHANGED exc
                   ELSE pc' = "boundary" /\ exc' = esc /\ UNCHANGED exitStatus
              ELSE IF notifyCtx = "boundary"
                   THEN pc' = "done" /\ exitStatus' = exc /\ UNCHANGED exc
                   ELSE /\ pc' = IF notifyCtx = "main" THEN "boundary"
                                 ELSE IF notifyCtx = "probe" THEN "send_boot"
                                 ELSE IF DEBUG THEN "probe" ELSE "send_boot"
                        /\ UNCHANGED <<exc, exitStatus>>
    /\ UNCHANGED <<environ, DEBUG, mainLocals, queries, sends, sendVars,
                   notifyCtx, origErr, bootTransportErr, fnVars>>

(* __main__, lines 334-338: except Exception -> notify_exception(e) *)
Boundary ==
    /\ pc = "boundary"
    /\ notifyCtx' = "boundary"
    /\ pc' = "notify"
    /\ UNCHANGED <<environ, DEBUG, mainLocals, queries, sends, sendVars,
                   exc, histVars, exitStatus, fnVars>>

Next ==
    \/ MainBuildSender
    \/ MainLocalIps
    \/ MainBootTime
    \/ MainCrashMarker
    \/ MainRecentErrors
    \/ MainProbe
    \/ MainSendBoot
    \/ SendEmailBegin
    \/ SmtpConnect
    \/ SmtpStarttls
    \/ SmtpLogin
    \/ SmtpSendMessage
    \/ SmtpExit
    \/ PrintSent
    \/ SendExcept
    \/ ProbeReturn
    \/ BootSendReturn
    \/ ReportReturn
    \/ NotifyException
    \/ NotifyEnd
    \/ Boundary

Spec == Init /\ [][Next]_vars

----------------------------------------------------------------------------
(* get_recent_errors_near on its own: every reference time, log and query   *)
(* outcome within the bounds                                                *)

ErrorsInputs ==
    [time_iso : {None} \cup {Some(t) : t \in Times}, lg : Logs, s1 : PsStatus, s2 : PsStatus]

InitErrors ==
    /\ pc = "call_errors"
    /\ fnIn \in ErrorsInputs
    /\ fnOut = <<>>
    /\ environ = [EMAIL_ADDRESS |-> "me@example.com", EMAIL_PASSWORD |-> "secret",
                  MAIN_EMAIL_ADDRESS |-> Unset, MACHINE_IP |-> Unset]
    /\ DEBUG = FALSE
    /\ RunStart

CallGetRecentErrorsNear ==
    /\ pc = "call_errors"
    /\ fnOut' = get_recent_errors_near(fnIn.time_iso, HoursBefore, Limit, fnIn.lg, fnIn.s1, fnIn.s2)
    /\ pc' = "ret_errors"
    /\ UNCHANGED <<environ, DEBUG, mainLocals, queries, sends, sendVars, notifyCtx, exc,
                   histVars, exitStatus, fnIn>>

NextErrors == CallGetRecentErrorsNear

SpecErrors == InitErrors /\ [][NextErrors]_vars

(* get_local_ipv4_list on its own: every MACHINE_IP and detection outcome *)

IpsInputs == [env_ip : {Unset, "", "192.168.1.9"}, o : IpOutcomes]

InitIps ==
    /\ pc = "call_ips"
    /\ fnIn \in IpsInputs
    /\ fnOut = <<>>
    /\ environ = [EMAIL_ADDRESS |-> "me@example.com", EMAIL_PASSWORD |-> "secret",
                  MAIN_EMAIL_ADDRESS |-> Unset, MACHINE_IP |-> fnIn.env_ip]
    /\ DEBUG = FALSE
    /\ RunStart

CallGetLocalIpv4List ==
    /\ pc = "call_ips"
    /\ fnOut' = get_local_ipv4_list(fnIn.env_ip, fnIn.o)
    /\ pc' = "ret_ips"
    /\ UNCHANGED <<environ, DEBUG, mainLocals, queries, sends, sendVars, notifyCtx, exc,
                   histVars, exitStatus, fnIn>>

NextIps == CallGetLocalIpv4List

SpecIps == InitIps /\ [][NextIps]_vars

----------------------------------------------------------------------------
(* Properties *)

Reports == Count(sends, "report")

BootQueryFailed == "boot" \in Range(queries) /\ boot_iso = None

(* C1: in a run whose primary boot-email send failed at the mail transport, *)
(* exactly one failure-report send is attempted over the whole run and the  *)
(* process ends with the original send error.                               *)
C1_TransportFailureReportedOnceAndPropagated ==
    (pc = "done" /\ bootTransportErr # NoExc)
        => (Reports = 1 /\ exitStatus = bootTransportErr)

(* C2: with valid credentials and a successful boot-time query, the primary *)
(* boot email send is attempted whichever soft query steps fail.            *)
C2_SoftQueryFailureNeverFatal ==
    (pc = "done" /\ HasCreds(environ) /\ boot_iso # None) => "boot" \in Range(sends)

(* C3: when the boot-time query fails, no primary boot email send is ever   *)
(* attempted, and the run ends after exactly one failure-report send with   *)
(* the query error as its (non-zero) exit.                                  *)
C3_BootQueryFailureIsFatal ==
    BootQueryFailed =>
        /\ "boot" \notin Range(sends)
        /\ "probe" \notin Range(sends)
        /\ Reports <= 1
        /\ pc = "done" => (Reports = 1 /\ exitStatus = "RuntimeError_boot")

C3_Witness ==
    /\ pc = "done"
    /\ BootQueryFailed
    /\ sends = <<"report">>
    /\ exitStatus = "RuntimeError_boot"

(* C5: with EMAIL_ADDRESS or EMAIL_PASSWORD unset or empty no client is     *)
(* built, no query is issued, no email send is attempted, and the run ends  *)
(* with the configuration error.                                            *)
C5_MissingCredentialsAbortFirst ==
    ~HasCreds(environ) =>
        /\ sender = None
        /\ queries = <<>>
        /\ sends = <<>>
        /\ pc \in {"main", "done"}
        /\ pc = "done" => exitStatus = "SystemExit"

C5_Witness ==
    /\ pc = "done"
    /\ environ.EMAIL_ADDRESS = "me@example.com"
    /\ environ.EMAIL_PASSWORD = Unset
    /\ sender = None
    /\ exitStatus = "SystemExit"

(* C7: the exception in flight after a failure notification is the original *)
(* one, and the process terminates with it, whether the failure-report send *)
(* succeeded, failed or raised.                                             *)
C7_NotificationNeverMasksOriginal ==
    origErr # NoExc =>
        /\ exc = origErr
        /\ pc = "done" => exitStatus = origErr

C7_Witness ==
    /\ pc = "done"
    /\ origErr # NoExc
    /\ swallowed
    /\ notifyCtx = "boundary"
    /\ exitStatus = origErr

(* C8: outside the with block of sendEmail no connection is open: it is     *)
(* closed on the normal path and on a failure of starttls, login or         *)
(* send_message alike.                                                      *)
C8_ConnectionReleasedOnEveryPath ==
    pc \notin {"se_starttls", "se_login", "se_send_message", "se_exit"} => conn # "open"

C8_Witness ==
    /\ pc = "se_return"
    /\ sendCtx = "boot"
    /\ bootTransportErr = TransportError("login")
    /\ conn = "closed"

(* C10: while the crash marker is absent the time-windowed query is never   *)
(* issued.                                                                  *)
C10_AbsentMarkerNeverWindowed ==
    crash = None => "windowed" \notin Range(queries)

C10_Witness ==
    /\ pc = "done"
    /\ crash = None
    /\ "crash" \in Range(queries)
    /\ "overall" \in Range(queries)
    /\ exitStatus = "ok"

InWindow(ev, t, hrs) == ev.TimeCreated <= t /\ ev.TimeCreated >= t - hrs

TimesOf(evs) == {evs[i].TimeCreated : i \in 1..Len(evs)}

C6_NeverRaisesOneFallback ==
    pc = "ret_errors" =>
        /\ fnOut.raised = NoExc
        /\ Len(fnOut.issued) <= 2
        /\ fnIn.s1 = "ok" => Len(fnOut.issued) = 1 /\ Count(fnOut.issued, "fallback") = 0
        /\ fnIn.s1 # "ok" => Len(fnOut.issued) = 2 /\ Count(fnOut.issued, "fallback") = 1
        /\ (fnIn.s1 # "ok" /\ fnIn.s2 # "ok") => fnOut.value = <<>>

C6_Witness ==
    /\ pc = "ret_errors"
    /\ fnIn.s1 = "fail"
    /\ fnIn.s2 = "garbage"
    /\ fnIn.lg # {}
    /\ fnOut.issued = <<"windowed", "fallback">>
    /\ fnOut.value = <<>>

NonBlank(ls) == SelectSeq(ls, LAMBDA l : l # "")

EnvFallback(v) == IF v \in {Unset, ""} THEN <<>> ELSE <<v>>

====
